---------------------------- MODULE Spec2Model ----------------------------
(***************************************************************************)
(* Model of pgmcp.py, the PostgreSQL database inspector: the per-call      *)
(* connection and execution component (get_connection, execute_query) and  *)
(* the exposed operations built on it, together with the part of the       *)
(* database engine and of its information_schema that the operations'      *)
(* statements read.                                                        *)
(*                                                                         *)
(* Texts (statement texts, schema and table names) are sequences of        *)
(* one-character strings, so that trimming, upper-casing, interpolation    *)
(* and the engine's reading of a statement are computed, not assumed.      *)
(***************************************************************************)
EXTENDS Integers, Sequences, FiniteSets

(***************************************************************************)
(* Bounds of the model.                                                    *)
(***************************************************************************)
MaxPad == 1
MaxLimit == 3
MaxLeaked == 1
MaxDDL == 1

(***************************************************************************)
(* Characters.  Chars lists the characters of the model in code-point      *)
(* order; LongS stands for the single character U+017F (LATIN SMALL LETTER *)
(* LONG S), whose upper case is "S".                                       *)
(***************************************************************************)
LongS == "U+017F"

Chars ==
  << "\t", "\n", " ", "%", "*", "-", ".",
     "0", "1", "2", "3", "4", "5", "6", "7", "8", "9", ";",
     "A", "B", "C", "D", "E", "F", "G", "H", "I", "J", "K", "L", "M",
     "N", "O", "P", "Q", "R", "S", "T", "U", "V", "W", "X", "Y", "Z", "_",
     "a", "b", "c", "d", "e", "f", "g", "h", "i", "j", "k", "l", "m",
     "n", "o", "p", "q", "r", "s", "t", "u", "v", "w", "x", "y", "z",
     LongS >>

\* the place of a character in Chars
OrdOf == [ c \in { Chars[i] : i \in DOMAIN Chars } |->
             CHOOSE i \in DOMAIN Chars : Chars[i] = c ]

Ord(c) == OrdOf[c]

IsUpperChar(c) == Ord(c) >= Ord("A") /\ Ord(c) <= Ord("Z")
IsLowerChar(c) == Ord(c) >= Ord("a") /\ Ord(c) <= Ord("z")
IsDigit(c) == Ord(c) >= Ord("0") /\ Ord(c) <= Ord("9")

\* str.isspace() on the characters of the model
IsSpace(c) == c \in {" ", "\t", "\n"}

\* str.upper() on one character: a-z, and the long s, have an upper case
UpperChar(c) ==
  IF IsLowerChar(c) THEN Chars[Ord(c) - Ord("a") + Ord("A")]
  ELSE IF c = LongS THEN "S"
  ELSE c

\* the engine's folding of an unquoted identifier: A-Z only
LowerChar(c) ==
  IF IsUpperChar(c) THEN Chars[Ord(c) - Ord("A") + Ord("a")] ELSE c

upper(s) == [i \in 1..Len(s) |-> UpperChar(s[i])]
lower(s) == [i \in 1..Len(s) |-> LowerChar(s[i])]

\* the n-th smallest number of the set S
Nth(S, n) == CHOOSE i \in S : Cardinality({ j \in S : j < i }) = n - 1

lstrip(s) ==
  IF \A i \in DOMAIN s : IsSpace(s[i]) THEN << >>
  ELSE SubSeq(s, Nth({ i \in DOMAIN s : ~ IsSpace(s[i]) }, 1), Len(s))

rstrip(s) ==
  LET keep == { i \in DOMAIN s : ~ IsSpace(s[i]) }
  IN  IF keep = {} THEN << >> ELSE SubSeq(s, 1, Nth(keep, Cardinality(keep)))

\* strip() that trims the end of the text only
strip_trailing(s) == rstrip(s)

strip(s) == rstrip(lstrip(s))

startswith(s, p) == Len(s) >= Len(p) /\ SubSeq(s, 1, Len(p)) = p

\* code-point order of two texts
RECURSIVE TextLess(_, _)
TextLess(a, b) ==
  IF b = <<>> THEN FALSE
  ELSE IF a = <<>> THEN TRUE
  ELSE IF Head(a) = Head(b) THEN TextLess(Tail(a), Tail(b))
  ELSE Ord(Head(a)) < Ord(Head(b))

(***************************************************************************)
(* Names.                                                                  *)
(***************************************************************************)
Public == << "p", "u", "b", "l", "i", "c" >>
App == << "a", "p", "p" >>
PgCatalog == << "p", "g", "_", "c", "a", "t", "a", "l", "o", "g" >>
PgToast == << "p", "g", "_", "t", "o", "a", "s", "t" >>
InformationSchema ==
  << "i", "n", "f", "o", "r", "m", "a", "t", "i", "o", "n", "_",
     "s", "c", "h", "e", "m", "a" >>

\* the schemas the schema queries leave out (their NOT IN list)
SystemSchemas == {InformationSchema, PgCatalog, PgToast}

TName == << "t" >>
UName == << "U" >>
VName == << "v" >>
ColA == << "a" >>
ColB == << "b" >>
PKeyName == << "t", "_", "p", "k", "e", "y" >>
FKeyName == << "t", "_", "f", "k", "e", "y" >>

\* SQL NULL and a present value, in a result row
Null == << >>
Val(v) == << v >>

(***************************************************************************)
(* The database.  db.schemas is the set of schema names; db.tables the set *)
(* of relations [schema, name, type, cols, natts, nrows], cols being the   *)
(* relation's columns in ordinal order and natts the number of columns     *)
(* ever added; db.cons the set of table constraints                        *)
(* [schema, table, name, type, cols, ref_table, ref_cols].                 *)
(***************************************************************************)
Column(name, pos) ==
  [ column_name |-> name,
    data_type |-> "integer",
    is_nullable |-> "YES",
    column_default |-> Null,
    character_maximum_length |-> Null,
    numeric_precision |-> Val(32),
    numeric_scale |-> Val(0),
    ordinal_position |-> pos ]

Relation(s, n, ty, cols, nrows) ==
  [ schema |-> s, name |-> n, type |-> ty, cols |-> cols,
    natts |-> Len(cols), nrows |-> nrows ]

Constraint(s, t, n, ty, cols, rt, rcols) ==
  [ schema |-> s, table |-> t, name |-> n, type |-> ty, cols |-> cols,
    ref_table |-> rt, ref_cols |-> rcols ]

PrimaryKey(s, t, n, cols) == Constraint(s, t, n, "PRIMARY KEY", cols, Null, << >>)
ForeignKey(s, t, n, cols, rt, rcols) ==
  Constraint(s, t, n, "FOREIGN KEY", cols, rt, rcols)

Range(f) == { f[i] : i \in DOMAIN f }

\* the sequence of the rows of S in ascending order of their text field
\* (ORDER BY on a name; the keys of the rows of one statement are distinct)
OrderByText(S, field) ==
  LET Rank(x) == 1 + Cardinality({ y \in S : TextLess(y[field], x[field]) })
  IN  [ i \in 1..Cardinality(S) |-> CHOOSE x \in S : Rank(x) = i ]

\* the sequence of the rows of S in ascending order of their number field
OrderByNum(S, field) ==
  LET Rank(x) == 1 + Cardinality({ y \in S : y[field] < x[field] })
  IN  [ i \in 1..Cardinality(S) |-> CHOOSE x \in S : Rank(x) = i ]

\* the sequence of the texts of S in ascending order
SortedTexts(S) ==
  LET Rank(x) == 1 + Cardinality({ y \in S : TextLess(y, x) })
  IN  [ i \in 1..Cardinality(S) |-> CHOOSE x \in S : Rank(x) = i ]

(***************************************************************************)
(* information_schema: the catalog views the statements read.              *)
(***************************************************************************)
Schemata(d) ==
  { [ schema_name |-> s, schema_owner |-> "postgres" ] : s \in d.schemas }

TablesView(d) ==
  { [ table_schema |-> t.schema, table_name |-> t.name, table_type |-> t.type ]
      : t \in d.tables }

ColumnsView(d) ==
  UNION { { [ table_schema |-> t.schema, table_name |-> t.name, col |-> t.cols[i] ]
              : i \in DOMAIN t.cols } : t \in d.tables }

TableConstraints(d) ==
  { [ constraint_name |-> c.name, constraint_type |-> c.type,
      table_schema |-> c.schema, table_name |-> c.table ] : c \in d.cons }

\* one row per constrained column of a key constraint
KeyColumnUsage(d) ==
  UNION { { [ constraint_name |-> c.name, table_schema |-> c.schema,
              table_name |-> c.table, column_name |-> c.cols[i],
              ordinal_position |-> i ] : i \in DOMAIN c.cols }
          : c \in { x \in d.cons :
                      x.type \in {"PRIMARY KEY", "FOREIGN KEY", "UNIQUE"} } }

\* one row per column a constraint uses: the referenced columns of a foreign
\* key, the constraint's own columns otherwise
ConstraintColumnUsage(d) ==
  UNION { IF c.type = "FOREIGN KEY"
          THEN { [ constraint_name |-> c.name, table_schema |-> c.schema,
                   table_name |-> c.ref_table[1], column_name |-> c.ref_cols[i] ]
                   : i \in DOMAIN c.ref_cols }
          ELSE { [ constraint_name |-> c.name, table_schema |-> c.schema,
                   table_name |-> c.table, column_name |-> c.cols[i] ]
                   : i \in DOMAIN c.cols }
          : c \in d.cons }

(***************************************************************************)
(* The fixed statements of the operations, as the rows they select.        *)
(***************************************************************************)

\* list_schemas
ListSchemasRows(d) ==
  OrderByText({ r \in Schemata(d) : r.schema_name \notin SystemSchemas },
              "schema_name")

\* list_tables
ListTablesRows(d, schema_name) ==
  OrderByText({ [ table_name |-> r.table_name, table_type |-> r.table_type,
                  table_schema |-> r.table_schema ]
                  : r \in { x \in TablesView(d) : x.table_schema = schema_name } },
              "table_name")

\* describe_table, columns_query
DescribeColumnsRows(d, table_name, schema_name) ==
  OrderByNum({ r.col : r \in { x \in ColumnsView(d) :
                                 /\ x.table_name = table_name
                                 /\ x.table_schema = schema_name } },
             "ordinal_position")

\* describe_table, constraints_query: the rows of
\* tc LEFT JOIN kcu ON name LEFT JOIN ccu ON name WHERE tc.table, tc.schema,
\* each a triple of the joined rows (Null where a left join found none)
\* (on: the pairs of rows the join condition holds for)
LeftJoin(left, right, on) ==
  UNION { IF \E r \in right : << l, r >> \in on
          THEN { << l, Val(r) >> : r \in { x \in right : << l, x >> \in on } }
          ELSE { << l, Null >> }
          : l \in left }

SameConstraintName(l, r) == l.constraint_name = r.constraint_name

ConstraintsJoin(d, table_name, schema_name) ==
  LET tc  == TableConstraints(d)
      kcu == KeyColumnUsage(d)
      ccu == ConstraintColumnUsage(d)
      j1  == LeftJoin(tc, kcu,
                      { p \in tc \X kcu : SameConstraintName(p[1], p[2]) })
      j2  == LeftJoin(j1, ccu,
                      { p \in j1 \X ccu : SameConstraintName(p[1][1], p[2]) })
  IN  { << j[1][1], j[1][2], j[2] >>
          : j \in { x \in j2 : /\ x[1][1].table_name = table_name
                               /\ x[1][1].table_schema = schema_name } }

\* the select list of constraints_query, on one joined row
ConstraintRow(j) ==
  [ constraint_name |-> j[1].constraint_name,
    constraint_type |-> j[1].constraint_type,
    column_name |-> IF j[2] = Null THEN Null ELSE Val(j[2][1].column_name),
    foreign_table_name |-> IF j[3] = Null THEN Null ELSE Val(j[3][1].table_name),
    foreign_column_name |-> IF j[3] = Null THEN Null ELSE Val(j[3][1].column_name) ]

\* constraints_query has no ORDER BY, so the order of its rows is the
\* engine's: the result is modelled up to order, as the bag of its rows
\* (each row with the number of times it occurs)
DescribeConstraintsRows(d, table_name, schema_name) ==
  LET J == ConstraintsJoin(d, table_name, schema_name)
  IN  [ r \in { ConstraintRow(j) : j \in J } |->
          Cardinality({ j \in J : ConstraintRow(j) = r }) ]

\* string_agg(x, ', ' ORDER BY x) over a sequence of texts already in order
RECURSIVE StringAgg(_)
StringAgg(names) ==
  IF names = << >> THEN Null
  ELSE IF Len(names) = 1 THEN Val(names[1])
  ELSE Val(names[1] \o << ",", " " >> \o StringAgg(Tail(names))[1])


\* get_database_overview
OverviewJoin(d) ==
  LET on == { p \in Schemata(d) \X TablesView(d) :
                /\ p[1].schema_name = p[2].table_schema
                /\ p[2].table_type = "BASE TABLE" }
  IN  { j \in LeftJoin(Schemata(d), TablesView(d), on)
          : j[1].schema_name \notin SystemSchemas }

\* the group of schema s counted with COUNT(*): the row a left join keeps
\* for a schema without tables is counted as a table
OverviewGroupCountStar(d, s) ==
  LET grp   == { j \in OverviewJoin(d) : j[1].schema_name = s }
      names == { j[2][1].table_name : j \in { x \in grp : x[2] # Null } }
  IN  [ schema_name |-> s,
        table_count |-> Cardinality(grp),
        tables |-> StringAgg(SortedTexts(names)) ]

OverviewGroup(d, s) ==
  LET grp   == { j \in OverviewJoin(d) : j[1].schema_name = s }
      names == { j[2][1].table_name : j \in { x \in grp : x[2] # Null } }
  IN  [ schema_name |-> s,
        table_count |-> Cardinality({ j \in grp : j[2] # Null }),
        tables |-> StringAgg(SortedTexts(names)) ]

OverviewRows(d) ==
  OrderByText({ OverviewGroup(d, s) : s \in { j[1].schema_name : j \in OverviewJoin(d) } },
              "schema_name")

\* get_database_structure, the schema statement
StructSchemasRows(d) ==
  OrderByText({ [ schema_name |-> r.schema_name ]
                  : r \in { x \in Schemata(d) : x.schema_name \notin SystemSchemas } },
              "schema_name")

\* the table statement reporting every relation as a base table
StructTablesRowsAllBase(d, schema_name) ==
  OrderByText({ [ table_name |-> r.table_name, table_type |-> "BASE TABLE" ]
                  : r \in { x \in TablesView(d) : x.table_schema = schema_name } },
              "table_name")

\* get_database_structure, the table statement
StructTablesRows(d, schema_name) ==
  OrderByText({ [ table_name |-> r.table_name, table_type |-> r.table_type ]
                  : r \in { x \in TablesView(d) : x.table_schema = schema_name } },
              "table_name")

\* get_database_structure, the column statement
StructColumnsRows(d, table_name, schema_name) ==
  LET sel == OrderByNum({ r.col : r \in { x \in ColumnsView(d) :
                                            /\ x.table_name = table_name
                                            /\ x.table_schema = schema_name } },
                        "ordinal_position")
  IN  [ i \in DOMAIN sel |->
          [ column_name |-> sel[i].column_name,
            data_type |-> sel[i].data_type,
            is_nullable |-> sel[i].is_nullable,
            column_default |-> sel[i].column_default ] ]

(***************************************************************************)
(* The engine's reading of a statement text (cur.execute on a text).       *)
(***************************************************************************)
\* str(n) for an integer, as the driver writes a bound int into the text
RECURSIVE NatText(_)
NatText(n) ==
  IF n < 10 THEN << Chars[Ord("0") + n] >>
  ELSE NatText(n \div 10) \o << Chars[Ord("0") + (n % 10)] >>

IntText(n) == IF n < 0 THEN << "-" >> \o NatText(0 - n) ELSE NatText(n)

\* the driver's merge of the bound parameters into the text: every %s takes
\* the next parameter; with params = None the text is sent as it is
\* a bound parameter: a text or an integer
TextParam(s) == [ text |-> s ]
IntParam(n) == [ int |-> n ]

\* the driver's literal for a parameter (the model binds texts only where
\* the statement is a fixed one, which the engine reads as rows)
Adapt(p) == IntText(p.int)

\* Merge(text, params): the text with its k-th %s replaced by the k-th
\* parameter; it fails when a % is not the start of a %s or when the
\* numbers of %s and of parameters differ
Marks(text) == { i \in DOMAIN text : text[i] = "%" }

RECURSIVE MergeFrom(_, _, _)
MergeFrom(text, params, k) ==
  LET from == IF k = 0 THEN 1 ELSE Nth(Marks(text), k) + 2
  IN  IF k = Len(params) THEN SubSeq(text, from, Len(text))
      ELSE SubSeq(text, from, Nth(Marks(text), k + 1) - 1)
             \o Adapt(params[k + 1]) \o MergeFrom(text, params, k + 1)

Merge(text, params) ==
  IF /\ Cardinality(Marks(text)) = Len(params)
     /\ \A i \in Marks(text) : i < Len(text) /\ text[i + 1] = "s"
  THEN [ ok |-> TRUE, text |-> MergeFrom(text, params, 0) ]
  ELSE [ ok |-> FALSE, text |-> << >> ]

\* cur.execute(text, params): with params = None (bound = FALSE) the text
\* is sent as it is
Mogrify(text, params, bound) ==
  IF ~ bound THEN [ ok |-> TRUE, text |-> text ] ELSE Merge(text, params)

\* the tokens of a text: runs of characters between white space, with
\* ";", "." and "*" tokens of their own
IsSpecial(c) == c \in {";", ".", "*"}
IsWordAt(text, i) == ~ IsSpace(text[i]) /\ ~ IsSpecial(text[i])

TokenStarts(text) ==
  { i \in DOMAIN text :
      \/ IsSpecial(text[i])
      \/ IsWordAt(text, i) /\ (i = 1 \/ ~ IsWordAt(text, i - 1)) }

TokenEnd(text, i) ==
  IF IsSpecial(text[i]) THEN i
  ELSE CHOOSE j \in i..Len(text) :
         /\ \A k \in i..j : IsWordAt(text, k)
         /\ j = Len(text) \/ ~ IsWordAt(text, j + 1)

Tokens(text) ==
  LET starts == TokenStarts(text)
      first  == [ n \in 1..Cardinality(starts) |-> Nth(starts, n) ]
  IN  [ n \in DOMAIN first |-> SubSeq(text, first[n], TokenEnd(text, first[n])) ]

\* the statements of a token sequence, split at ";"
Semis(toks) == { i \in DOMAIN toks : toks[i] = << ";" >> }

SemiAt(toks, k) ==
  IF k = 0 THEN 0
  ELSE IF k > Cardinality(Semis(toks)) THEN Len(toks) + 1
  ELSE Nth(Semis(toks), k)

Statements(toks) ==
  [ k \in 1..(Cardinality(Semis(toks)) + 1) |->
      SubSeq(toks, SemiAt(toks, k - 1) + 1, SemiAt(toks, k) - 1) ]

KwSelect == << "S", "E", "L", "E", "C", "T" >>
KwFrom == << "F", "R", "O", "M" >>
KwLimit == << "L", "I", "M", "I", "T" >>
KwDelete == << "D", "E", "L", "E", "T", "E" >>
KwDrop == << "D", "R", "O", "P" >>
KwTable == << "T", "A", "B", "L", "E" >>

\* key words are matched without regard to (ASCII) case
IsKw(tok, kw) == lower(tok) = lower(kw)

IsNatTok(tok) == tok # << >> /\ \A i \in DOMAIN tok : IsDigit(tok[i])
IsIntTok(tok) ==
  IsNatTok(tok) \/ (Len(tok) >= 2 /\ tok[1] = "-" /\ IsNatTok(Tail(tok)))

RECURSIVE NatOf(_)
NatOf(tok) ==
  IF tok = << >> THEN 0
  ELSE 10 * NatOf(SubSeq(tok, 1, Len(tok) - 1)) + (Ord(tok[Len(tok)]) - Ord("0"))

IntOf(tok) == IF tok[1] = "-" THEN 0 - NatOf(Tail(tok)) ELSE NatOf(tok)

IsNameTok(tok) ==
  /\ tok # << >>
  /\ \A i \in DOMAIN tok : IsLowerChar(tok[i]) \/ IsUpperChar(tok[i])
                            \/ IsDigit(tok[i]) \/ tok[i] = "_"
  /\ ~ IsDigit(tok[1])

\* a relation reference: name, or schema . name; unquoted names are folded
\* to lower case and an unqualified name is looked up in schema public
IsRelRef(toks) ==
  \/ Len(toks) = 1 /\ IsNameTok(toks[1])
  \/ Len(toks) = 3 /\ IsNameTok(toks[1]) /\ toks[2] = << "." >> /\ IsNameTok(toks[3])

RelSchema(toks) == IF Len(toks) = 3 THEN lower(toks[1]) ELSE Public
RelName(toks) == IF Len(toks) = 3 THEN lower(toks[3]) ELSE lower(toks[1])

Lookup(d, toks) ==
  { t \in d.tables : t.schema = RelSchema(toks) /\ t.name = RelName(toks) }

\* every sequence of k distinct elements of S
RECURSIVE Arrangements(_, _)
Arrangements(S, k) ==
  IF k = 0 THEN { << >> }
  ELSE UNION { { << x >> \o r : r \in Arrangements(S \ {x}, k - 1) } : x \in S }

Min(a, b) == IF a <= b THEN a ELSE b

Failure(d) == [ ok |-> FALSE, desc |-> FALSE, rowsets |-> { << >> }, db |-> d ]

\* the rows a SELECT yields under an optional LIMIT: any `count` of them,
\* in any order (no ORDER BY); a negative LIMIT is an error
Limited(d, all, limitToks) ==
  IF limitToks = << >>
    THEN [ ok |-> TRUE, desc |-> TRUE, db |-> d,
           rowsets |-> Arrangements(all, Cardinality(all)) ]
  ELSE IF Len(limitToks) = 2 /\ IsKw(limitToks[1], KwLimit)
          /\ IsIntTok(limitToks[2]) /\ IntOf(limitToks[2]) >= 0
    THEN [ ok |-> TRUE, desc |-> TRUE, db |-> d,
           rowsets |-> Arrangements(all, Min(IntOf(limitToks[2]), Cardinality(all))) ]
  ELSE Failure(d)

\* the first position of a LIMIT key word in toks, or Len(toks) + 1
LimitAt(toks) ==
  IF \E i \in DOMAIN toks : IsKw(toks[i], KwLimit)
  THEN CHOOSE i \in DOMAIN toks :
         IsKw(toks[i], KwLimit) /\ \A j \in 1..(i - 1) : ~ IsKw(toks[j], KwLimit)
  ELSE Len(toks) + 1

\* one statement on database d: whether it succeeds, whether it returns
\* rows (desc), the row sequences it may return, and the database after it
RunStatement(d, toks) ==
  IF toks = << >>
    THEN [ ok |-> TRUE, desc |-> FALSE, rowsets |-> { << >> }, db |-> d ]
  ELSE IF IsKw(toks[1], KwSelect) /\ Len(toks) >= 2 /\ IsNatTok(toks[2])
    THEN Limited(d, { [ value |-> NatOf(toks[2]) ] }, SubSeq(toks, 3, Len(toks)))
  ELSE IF IsKw(toks[1], KwSelect) /\ Len(toks) >= 4
          /\ toks[2] = << "*" >> /\ IsKw(toks[3], KwFrom)
    THEN LET at  == LimitAt(toks)
             ref == SubSeq(toks, 4, at - 1)
         IN  IF IsRelRef(ref) /\ Lookup(d, ref) # {}
             THEN LET t == CHOOSE x \in Lookup(d, ref) : TRUE
                  IN  Limited(d, { [ relation |-> << t.schema, t.name >>, row |-> i ]
                                     : i \in 1..t.nrows },
                              SubSeq(toks, at, Len(toks)))
             ELSE Failure(d)
  ELSE IF IsKw(toks[1], KwDelete) /\ Len(toks) >= 3 /\ IsKw(toks[2], KwFrom)
    THEN LET ref == SubSeq(toks, 3, Len(toks))
         IN  IF IsRelRef(ref) /\ \E t \in Lookup(d, ref) : t.type = "BASE TABLE"
             THEN LET t == CHOOSE x \in Lookup(d, ref) : TRUE
                  IN  [ ok |-> TRUE, desc |-> FALSE, rowsets |-> { << >> },
                        db |-> [ d EXCEPT !.tables =
                                   (@ \ {t}) \cup { [ t EXCEPT !.nrows = 0 ] } ] ]
             ELSE Failure(d)
  ELSE IF IsKw(toks[1], KwDrop) /\ Len(toks) >= 3 /\ IsKw(toks[2], KwTable)
    THEN LET ref == SubSeq(toks, 3, Len(toks))
         IN  IF IsRelRef(ref) /\ \E t \in Lookup(d, ref) : t.type = "BASE TABLE"
             THEN LET t == CHOOSE x \in Lookup(d, ref) : TRUE
                  IN  IF \E c \in d.cons : /\ c.type = "FOREIGN KEY"
                                            /\ c.schema = t.schema
                                            /\ c.ref_table = Val(t.name)
                                            /\ c.table # t.name
                      THEN Failure(d)
                      ELSE [ ok |-> TRUE, desc |-> FALSE, rowsets |-> { << >> },
                             db |-> [ d EXCEPT
                                        !.tables = @ \ {t},
                                        !.cons = { c \in @ : ~ ( c.schema = t.schema
                                                                /\ c.table = t.name ) } ] ]
             ELSE Failure(d)
  ELSE Failure(d)

\* the statements of a text one after the other in one transaction: the
\* first failure fails them all, and the cursor holds the last statement's
\* result
RECURSIVE RunScript(_, _, _)
\* r is the result of the first of stmts
ScriptStep(r, d, stmts, last) ==
  IF ~ r.ok THEN r
  ELSE IF Head(stmts) = << >> THEN RunScript(d, Tail(stmts), last)
  ELSE RunScript(r.db, Tail(stmts), r)

RunScript(d, stmts, last) ==
  IF stmts = << >> THEN last
  ELSE ScriptStep(RunStatement(d, Head(stmts)), d, stmts, last)

\* a failed transaction leaves the database as it was
Transaction(d, r) == IF r.ok THEN r ELSE Failure(d)

RunText(d, text) ==
  Transaction(d, RunScript(d, Statements(Tokens(text)),
                           [ ok |-> TRUE, desc |-> FALSE, rowsets |-> { << >> },
                             db |-> d ]))

(***************************************************************************)
(* Statements: a fixed statement of an operation with its bound            *)
(* parameters, or a text (with the parameters to merge, or None).          *)
(***************************************************************************)
Stmt(sql, params) ==
  [ sql |-> sql, text |-> << >>, params |-> params, bound |-> TRUE ]
TextStmt(text, params) ==
  [ sql |-> "text", text |-> text, params |-> params, bound |-> TRUE ]
\* a text with params = None
PlainStmt(text) ==
  [ sql |-> "text", text |-> text, params |-> << >>, bound |-> FALSE ]

\* cur.execute(query, params) on database d
RunMerged(d, m) == IF m.ok THEN RunText(d, m.text) ELSE Failure(d)

Engine(d, stmt) ==
  IF stmt.sql = "text"
    THEN RunMerged(d, Mogrify(stmt.text, stmt.params, stmt.bound))
  ELSE LET p == [ i \in DOMAIN stmt.params |-> stmt.params[i].text ]
           rs == CASE stmt.sql = "list_schemas" -> { ListSchemasRows(d) }
                   [] stmt.sql = "list_tables" -> { ListTablesRows(d, p[1]) }
                   [] stmt.sql = "describe_columns" -> { DescribeColumnsRows(d, p[1], p[2]) }
                   [] stmt.sql = "describe_constraints" ->
                        { << [ unordered |-> DescribeConstraintsRows(d, p[1], p[2]) ] >> }
                   [] stmt.sql = "overview" -> { OverviewRows(d) }
                   [] stmt.sql = "struct_schemas" -> { StructSchemasRows(d) }
                   [] stmt.sql = "struct_tables" -> { StructTablesRows(d, p[1]) }
                   [] stmt.sql = "struct_columns" -> { StructColumnsRows(d, p[1], p[2]) }
       IN  [ ok |-> TRUE, desc |-> TRUE, rowsets |-> rs, db |-> d ]

(***************************************************************************)
(* State.                                                                  *)
(*   db       the database                                                 *)
(*   conns    the connections opened by the current (or last) call         *)
(*   leaked   the number of connections of earlier calls still open        *)
(*   call     the current (or last) call: operation, arguments, whether    *)
(*            an execute_query of it raised, whether it has returned       *)
(*   ret      what the last call returned                                  *)
(*   log      the statements the current (or last) call issued             *)
(*   walk     the position and locals of the operation in progress, for    *)
(*            the operations of several statements (describe_table,        *)
(*            get_database_structure)                                      *)
(*   seen     the database states during the current (or last) call of     *)
(*            such an operation                                            *)
(*   ddl      the number of changes made by other sessions                 *)
(*   overview the rows of the last successful overview statement, with     *)
(*            the database they were read from                             *)
(*   refcounting  whether the interpreter the service runs on finalizes an  *)
(*            object as soon as nothing refers to it                       *)
(***************************************************************************)
VARIABLES db, conns, leaked, call, ret, log, walk, seen, ddl, overview,
          refcounting

vars == << db, conns, leaked, call, ret, log, walk, seen, ddl, overview,
          refcounting >>

(***************************************************************************)
(* The connection and execution component.                                 *)
(***************************************************************************)
\* what can fail in one execute_query call: the connection attempt, the
\* statement's execution, the fetch of its rows, the commit on leaving
Faults == {"none", "connect", "execute", "fetch", "commit"}

\* what has become of the connection object when execute_query is left and
\* nothing refers to it any more: an interpreter that counts references
\* has finalized it, which closes it; another one leaves it open until it
\* collects it
Finalizations == IF refcounting THEN { "closed" } ELSE { "open" }

\* a connection as execute_query leaves it: the block of the cursor has
\* closed the cursor; the block of the connection has ended the transaction
\* (commit, or rollback on an exception) and has not closed the connection,
\* which is closed only if it has been finalized
ConnAfter(tx, state) == [ state |-> state, cursor |-> "closed", tx |-> tx ]

\* get_connection raised: there is no connection
NotConnected(d, cause) ==
  { [ raised |-> TRUE, cause |-> cause, rows |-> << >>, db |-> d, conn |-> << >> ] }

Raised(d, cause, tx) ==
  { [ raised |-> TRUE, cause |-> cause, rows |-> << >>, db |-> d,
      conn |-> << ConnAfter(tx, s) >> ] : s \in Finalizations }

\* get_connection: the driver's error becomes "Failed to connect to database"
get_connection(fault) ==
  IF fault = "connect"
  THEN [ raised |-> TRUE, cause |-> "Failed to connect to database" ]
  ELSE [ raised |-> FALSE, cause |-> "" ]

\* execute_query that takes a statement without rows for a failed one
WithConnectionEmptyFails(d, e, fault) ==
  IF fault = "execute" \/ ~ e.ok \/ e.rowsets = { << >> }
    THEN Raised(d, "execute", "rollback")
  ELSE IF e.desc /\ fault = "fetch"
    THEN Raised(d, "fetch", "rollback")
  ELSE IF fault = "commit"
    THEN Raised(d, "commit", "failed")
  ELSE { [ raised |-> FALSE, cause |-> "",
           rows |-> IF e.desc THEN r ELSE << >>,
           db |-> e.db, conn |-> << ConnAfter("commit", s) >> ]
           : r \in e.rowsets, s \in Finalizations }

\* the two blocks of execute_query around e, the engine's answer to
\* cur.execute
WithConnection(d, e, fault) ==
  IF fault = "execute" \/ ~ e.ok
    THEN Raised(d, "execute", "rollback")
  ELSE IF e.desc /\ fault = "fetch"
    THEN Raised(d, "fetch", "rollback")
  ELSE IF fault = "commit"
    THEN Raised(d, "commit", "failed")
  ELSE { [ raised |-> FALSE, cause |-> "",
           rows |-> IF e.desc THEN r ELSE << >>,
           db |-> e.db, conn |-> << ConnAfter("commit", s) >> ]
           : r \in e.rowsets, s \in Finalizations }

\* execute_query(query, params): the outcomes of one call on database d
execute_query(d, stmt, fault) ==
  IF get_connection(fault).raised
    THEN NotConnected(d, get_connection(fault).cause)
  ELSE WithConnection(d, Engine(d, stmt), fault)

\* what an operation returns: a serialized document, an error message made
\* of a fixed label and the cause, or the prompt text around the overview
\* (doc is the document: the sequence of the rows of a list, the one
\* structure of describe_table, the entries of the mapping of
\* get_database_structure in the order of their insertion, the embedded text
\* of the prompt; label is the fixed text before the first interpolation)
Json(v) == [ kind |-> "json", label |-> "", doc |-> v, cause |-> "" ]
Error(label, cause) == [ kind |-> "error", label |-> label, doc |-> << >>, cause |-> cause ]
Prompt(inner) ==
  [ kind |-> "prompt",
    label |-> "You are helping to write SQL queries for a PostgreSQL database.",
    doc |-> << inner >>, cause |-> "" ]
Pending == [ kind |-> "pending", label |-> "", doc |-> << >>, cause |-> "" ]

OpenCount(cs) == Cardinality({ i \in DOMAIN cs : cs[i].state = "open" })

IdleWalk ==
  [ pc |-> "idle", schemas |-> << >>, si |-> 0, tables |-> << >>, ti |-> 0,
    structure |-> << >>, columns |-> << >> ]

\* a call can start: no call is in progress
Idle == walk.pc = "idle" /\ leaked + OpenCount(conns) <= MaxLeaked

\* the connections and the log after one more execute_query
After(cs, lg, stmt, o) ==
  [ conns |-> cs \o o.conn,
    log |-> Append(lg, [ stmt |-> stmt,
                         conn |-> IF o.conn = << >> THEN 0 ELSE Len(cs) + 1,
                         raised |-> o.raised,
                         rows |-> o.rows ]) ]

Nothing == [ conns |-> << >>, log |-> << >> ]

\* an operation called from the idle state returns r
Return(op, args, faults, a, d, r, raised) ==
  /\ db' = d
  /\ conns' = a.conns
  /\ leaked' = leaked + OpenCount(conns)
  /\ log' = a.log
  /\ call' = [ op |-> op, args |-> args, faults |-> faults, raised |-> raised,
               done |-> TRUE ]
  /\ ret' = r
  /\ UNCHANGED << walk, seen, ddl, refcounting >>

(***************************************************************************)
(* The exposed operations.                                                 *)
(***************************************************************************)
list_schemas(fault) ==
  /\ Idle
  /\ \E o \in execute_query(db, Stmt("list_schemas", << >>), fault) :
       Return("list_schemas", << >>, << fault >>,
              After(<< >>, << >>, Stmt("list_schemas", << >>), o), o.db,
              IF o.raised THEN Error("Error listing schemas: ", o.cause)
              ELSE Json(o.rows),
              o.raised)
  /\ UNCHANGED overview

list_tables(schema_name, fault) ==
  /\ Idle
  /\ LET q == Stmt("list_tables", << TextParam(schema_name) >>)
     IN  \E o \in execute_query(db, q, fault) :
           Return("list_tables", << schema_name >>, << fault >>, After(<< >>, << >>, q, o), o.db,
                  IF o.raised
                  THEN Error("Error listing tables in schema '", o.cause)
                  ELSE Json(o.rows),
                  o.raised)
  /\ UNCHANGED overview

\* describe_table: its two statements are two calls of execute_query, each
\* a connection and a transaction of its own, so the operation is one step
\* per statement and other sessions may act between the two.
\* The first step: the call and the columns statement
describe_table(table_name, schema_name, fault) ==
  /\ Idle
  /\ seen' = { db }
  /\ UNCHANGED << ddl, overview, refcounting >>
  /\ LET q == Stmt("describe_columns", << TextParam(table_name), TextParam(schema_name) >>)
     IN  \E o \in execute_query(db, q, fault) :
           /\ db' = o.db
           /\ conns' = After(<< >>, << >>, q, o).conns
           /\ log' = After(<< >>, << >>, q, o).log
           /\ leaked' = leaked + OpenCount(conns)
           /\ call' = [ op |-> "describe_table", args |-> << table_name, schema_name >>,
                        faults |-> << fault >>, raised |-> o.raised, done |-> o.raised ]
           /\ ret' = IF o.raised THEN Error("Error describing table '", o.cause)
                     ELSE Pending
           /\ walk' = IF o.raised THEN IdleWalk
                      ELSE [ IdleWalk EXCEPT !.pc = "constraints", !.columns = o.rows ]

\* the second step: the constraints statement and the result
DescribeConstraints(fault) ==
  /\ walk.pc = "constraints"
  /\ UNCHANGED << leaked, seen, ddl, overview, refcounting >>
  /\ LET table_name == call.args[1]
         schema_name == call.args[2]
         q == Stmt("describe_constraints", << TextParam(table_name), TextParam(schema_name) >>)
     IN  \E o \in execute_query(db, q, fault) :
           /\ db' = o.db
           /\ conns' = After(conns, log, q, o).conns
           /\ log' = After(conns, log, q, o).log
           /\ call' = [ call EXCEPT !.faults = Append(@, fault), !.raised = o.raised,
                                    !.done = TRUE ]
           /\ ret' = IF o.raised THEN Error("Error describing table '", o.cause)
                     ELSE Json(<< [ table_name |-> table_name,
                                    schema_name |-> schema_name,
                                    columns |-> walk.columns,
                                    constraints |-> o.rows[1].unordered ] >>)
           /\ walk' = IdleWalk

\* the f-string of get_sample_data
SampleText(table_name, schema_name) ==
  << "\n", " ", " ", " ", " ", "S", "E", "L", "E", "C", "T", " ", "*", " ",
     "F", "R", "O", "M", " " >>
  \o schema_name \o << "." >> \o table_name
  \o << " ", "\n", " ", " ", " ", " ", "L", "I", "M", "I", "T", " ", "%", "s",
        ";", "\n", " ", " ", " ", " " >>

get_sample_data(table_name, schema_name, limit, fault) ==
  /\ Idle
  /\ LET q == TextStmt(SampleText(table_name, schema_name), << IntParam(limit) >>)
     IN  \E o \in execute_query(db, q, fault) :
           Return("get_sample_data", << table_name, schema_name, limit >>, << fault >>,
                  After(<< >>, << >>, q, o), o.db,
                  IF o.raised
                  THEN Error("Error getting sample data from '", o.cause)
                  ELSE Json(o.rows),
                  o.raised)
  /\ UNCHANGED overview

\* the safety check of execute_sql_query
IsAllowed(query) == startswith(upper(strip(query)), KwSelect)

execute_sql_query(query, fault) ==
  /\ Idle
  /\ IF ~ IsAllowed(query)
     THEN Return("execute_sql_query", << query >>, << fault >>, Nothing, db,
                 Error("Error: Only SELECT statements are allowed for security reasons.",
                       ""),
                 FALSE)
     ELSE LET q == PlainStmt(query)
          IN  \E o \in execute_query(db, q, fault) :
                Return("execute_sql_query", << query >>, << fault >>,
                       After(<< >>, << >>, q, o), o.db,
                       IF o.raised THEN Error("Error executing query: ", o.cause)
                       ELSE Json(o.rows),
                       o.raised)
  /\ UNCHANGED overview

\* what get_database_overview returns on outcome o of its statement
OverviewResult(o) ==
  IF o.raised THEN Error("Error getting database overview: ", o.cause)
  ELSE Json(o.rows)

get_database_overview(fault) ==
  /\ Idle
  /\ LET q == Stmt("overview", << >>)
     IN  \E o \in execute_query(db, q, fault) :
           /\ Return("get_database_overview", << >>, << fault >>, After(<< >>, << >>, q, o), o.db,
                     OverviewResult(o), o.raised)
           /\ overview' = IF o.raised THEN overview
                          ELSE << [ rows |-> o.rows, db |-> o.db ] >>

\* sql_generation_prompt: get_database_overview() returns a text in every
\* case, which the template embeds
sql_generation_prompt(fault) ==
  /\ Idle
  /\ LET q == Stmt("overview", << >>)
     IN  \E o \in execute_query(db, q, fault) :
           /\ Return("sql_generation_prompt", << >>, << fault >>, After(<< >>, << >>, q, o), o.db,
                     Prompt(OverviewResult(o)), o.raised)
           /\ overview' = IF o.raised THEN overview
                          ELSE << [ rows |-> o.rows, db |-> o.db ] >>

(***************************************************************************)
(* get_database_structure.  Each execute_query of the walk is a            *)
(* transaction of its own, so the walk is one step per statement, and      *)
(* other sessions may act between the steps.                               *)
(***************************************************************************)
\* a mapping is the sequence of its entries [key, value] in the order of
\* their insertion, as json.dumps writes it
Keys(m) == { m[i].key : i \in DOMAIN m }
Get(m, k) == m[CHOOSE i \in DOMAIN m : m[i].key = k].value

\* d[k] = v on a mapping
Put(m, k, v) ==
  IF k \in Keys(m)
  THEN [ i \in DOMAIN m |-> IF m[i].key = k THEN [ key |-> k, value |-> v ] ELSE m[i] ]
  ELSE Append(m, [ key |-> k, value |-> v ])

\* a walk that returns after the last table of the first schema that has one
AdvanceStopsEarly(w) ==
  IF w.pc = "next_table" /\ w.ti > Len(w.tables)
  THEN [ w EXCEPT !.pc = "return" ]
  ELSE IF w.pc = "next_schema" /\ w.si > Len(w.schemas)
  THEN [ w EXCEPT !.pc = "return" ]
  ELSE w

\* the position after the loops' end tests: past the last table of a schema
\* the outer loop moves on, past the last schema the walk is over
Advance(w) ==
  LET w1 == IF w.pc = "next_table" /\ w.ti > Len(w.tables)
            THEN [ w EXCEPT !.pc = "next_schema", !.si = @ + 1 ]
            ELSE w
  IN  IF w1.pc = "next_schema" /\ w1.si > Len(w1.schemas)
      THEN [ w1 EXCEPT !.pc = "return" ]
      ELSE w1

\* one step of the walk ends: with an error message if its execute_query
\* raised, with the serialized structure if the walk is over, with the next
\* position otherwise
WalkStep(a, o, w, leak, faults) ==
  /\ db' = o.db
  /\ conns' = a.conns
  /\ log' = a.log
  /\ leaked' = leak
  /\ UNCHANGED << ddl, overview, refcounting >>
  /\ IF o.raised
     THEN /\ ret' = Error("Error getting database structure: ", o.cause)
          /\ call' = [ op |-> "get_database_structure", args |-> << >>,
                       faults |-> faults, raised |-> TRUE, done |-> TRUE ]
          /\ walk' = IdleWalk
     ELSE IF Advance(w).pc = "return"
     THEN /\ ret' = Json(w.structure)
          /\ call' = [ op |-> "get_database_structure", args |-> << >>,
                       faults |-> faults, raised |-> FALSE, done |-> TRUE ]
          /\ walk' = IdleWalk
     ELSE /\ ret' = Pending
          /\ call' = [ op |-> "get_database_structure", args |-> << >>,
                       faults |-> faults, raised |-> FALSE, done |-> FALSE ]
          /\ walk' = Advance(w)

\* the schema statement
WalkSchemas(fault) ==
  /\ Idle
  /\ seen' = { db }
  /\ LET q == Stmt("struct_schemas", << >>)
     IN  \E o \in execute_query(db, q, fault) :
           WalkStep(After(<< >>, << >>, q, o), o,
                    [ IdleWalk EXCEPT !.pc = "next_schema", !.schemas = o.rows, !.si = 1 ],
                    leaked + OpenCount(conns), << fault >>)

\* the table statement of the schema at hand
WalkTables(fault) ==
  /\ walk.pc = "next_schema"
  /\ UNCHANGED seen
  /\ LET schema_name == walk.schemas[walk.si].schema_name
         q == Stmt("struct_tables", << TextParam(schema_name) >>)
     IN  \E o \in execute_query(db, q, fault) :
           WalkStep(After(conns, log, q, o), o,
                    [ walk EXCEPT !.pc = "next_table", !.tables = o.rows, !.ti = 1,
                                  !.structure = Put(@, schema_name, << >>) ],
                    leaked, Append(call.faults, fault))

\* the column statement of the table at hand
WalkColumns(fault) ==
  /\ walk.pc = "next_table"
  /\ UNCHANGED seen
  /\ LET schema_name == walk.schemas[walk.si].schema_name
         table == walk.tables[walk.ti]
         q == Stmt("struct_columns", << TextParam(table.table_name), TextParam(schema_name) >>)
     IN  \E o \in execute_query(db, q, fault) :
           WalkStep(After(conns, log, q, o), o,
                    [ walk EXCEPT
                        !.ti = @ + 1,
                        !.structure =
                          Put(@, schema_name,
                              Put(Get(@, schema_name), table.table_name,
                                  [ type |-> table.table_type, columns |-> o.rows ])) ],
                    leaked, Append(call.faults, fault))

(***************************************************************************)
(* The environment: the interpreter's finalization of a connection object  *)
(* nothing refers to any more, and other sessions of the database.         *)
(***************************************************************************)
\* a connection object that was not finalized when execute_query was left
\* is closed when the interpreter collects it, later or never.  A
\* collection finalizes every such connection (execute_query keeps no
\* reference past its return)
Finalize ==
  /\ leaked + OpenCount(conns) > 0
  /\ conns' = [ i \in DOMAIN conns |-> [ conns[i] EXCEPT !.state = "closed" ] ]
  /\ leaked' = 0
  /\ UNCHANGED << db, call, ret, log, walk, seen, ddl, overview, refcounting >>

\* a change by another session, committed between two statements
Other(d) ==
  /\ ddl < MaxDDL
  /\ d # db
  /\ db' = d
  /\ ddl' = ddl + 1
  /\ seen' = IF walk.pc = "idle" THEN seen ELSE seen \cup { d }
  /\ UNCHANGED << conns, leaked, call, ret, log, walk, overview, refcounting >>

UserSchemas == { s \in db.schemas : s \notin SystemSchemas }

OtherCreateTable(s, n) ==
  /\ s \in UserSchemas
  /\ ~ \E t \in db.tables : t.schema = s /\ t.name = n
  /\ Other([ db EXCEPT !.tables =
               @ \cup { Relation(s, n, "BASE TABLE", << Column(ColA, 1) >>, 0) } ])

Referenced(t) ==
  \E c \in db.cons : /\ c.type = "FOREIGN KEY" /\ c.schema = t.schema
                     /\ c.ref_table = Val(t.name) /\ c.table # t.name

OtherDropTable(t) ==
  /\ t \in db.tables
  /\ ~ Referenced(t)
  /\ Other([ db EXCEPT !.tables = @ \ {t},
                       !.cons = { c \in @ : ~ (c.schema = t.schema /\ c.table = t.name) } ])

OtherAddColumn(t, name) ==
  /\ t \in db.tables
  /\ t.type = "BASE TABLE"
  /\ \A i \in DOMAIN t.cols : t.cols[i].column_name # name
  /\ Other([ db EXCEPT !.tables =
               (@ \ {t}) \cup { [ t EXCEPT !.cols = Append(@, Column(name, t.natts + 1)),
                                           !.natts = @ + 1 ] } ])

\* a dropped column leaves the positions of the others as they were
OtherDropColumn(t, i) ==
  /\ t \in db.tables
  /\ t.type = "BASE TABLE"
  /\ i \in DOMAIN t.cols
  /\ ~ \E c \in db.cons : /\ c.schema = t.schema
                          /\ \/ c.table = t.name /\ t.cols[i].column_name \in Range(c.cols)
                             \/ c.ref_table = Val(t.name)
                                  /\ t.cols[i].column_name \in Range(c.ref_cols)
  /\ Other([ db EXCEPT !.tables =
               (@ \ {t}) \cup { [ t EXCEPT !.cols =
                                    SubSeq(@, 1, i - 1) \o SubSeq(@, i + 1, Len(@)) ] } ])

\* DROP SCHEMA ... CASCADE
OtherDropSchema(s) ==
  /\ s \in UserSchemas
  /\ Other([ schemas |-> db.schemas \ {s},
             tables |-> { t \in db.tables : t.schema # s },
             cons |-> { c \in db.cons : c.schema # s } ])

(***************************************************************************)
(* Initial states and inputs.                                              *)
(***************************************************************************)
RName == << "r" >>
RKeyName == << "r", "_", "p", "k", "e", "y" >>

\* schema public with table t (columns a, b; primary key on a; two rows),
\* table "U" (a name that needs quoting; no columns; one row) and view v;
\* schema app with no tables; the system schema pg_catalog
Db0 ==
  [ schemas |-> { Public, App, PgCatalog },
    tables |-> { Relation(Public, TName, "BASE TABLE",
                          << Column(ColA, 1), Column(ColB, 2) >>, 2),
                 Relation(Public, UName, "BASE TABLE", << >>, 1),
                 Relation(Public, VName, "VIEW", << Column(ColA, 1) >>, 2) },
    cons |-> { PrimaryKey(Public, TName, PKeyName, << ColA >>) } ]

\* a family of catalogs around public.t and its primary key t_pkey:
\*   composite  the key is on (a, b) instead of (a)
\*   fk         public.t also has a foreign key to public.r, whose only
\*              constraint is its primary key r_pkey
\*   other      app.t exists, with a primary key of the same name t_pkey
\*   view       public has a view v
Catalog(x) ==
  [ schemas |-> { Public, App, PgCatalog },
    tables |->
      { Relation(Public, TName, "BASE TABLE",
                 << Column(ColA, 1), Column(ColB, 2) >>, 1) }
      \cup (IF x.fk THEN { Relation(Public, RName, "BASE TABLE",
                                    << Column(ColA, 1) >>, 1) } ELSE {})
      \cup (IF x.other THEN { Relation(App, TName, "BASE TABLE",
                                       << Column(ColA, 1) >>, 0) } ELSE {})
      \cup (IF x.view THEN { Relation(Public, VName, "VIEW",
                                      << Column(ColA, 1) >>, 1) } ELSE {}),
    cons |->
      { PrimaryKey(Public, TName, PKeyName,
                   IF x.composite THEN << ColA, ColB >> ELSE << ColA >>) }
      \cup (IF x.fk THEN { PrimaryKey(Public, RName, RKeyName, << ColA >>),
                           ForeignKey(Public, TName, FKeyName, << ColB >>,
                                      Val(RName), << ColA >>) } ELSE {})
      \cup (IF x.other THEN { PrimaryKey(App, TName, PKeyName, << ColA >>) } ELSE {}) ]

Catalogs ==
  { Catalog(x) : x \in [ composite : BOOLEAN, fk : BOOLEAN,
                         other : BOOLEAN, view : BOOLEAN ] }

InitWith(d) ==
  /\ db = d
  /\ conns = << >>
  /\ leaked = 0
  /\ call = [ op |-> "none", args |-> << >>, faults |-> << >>, raised |-> FALSE,
              done |-> TRUE ]
  /\ ret = Pending
  /\ log = << >>
  /\ walk = IdleWalk
  /\ seen = { }
  /\ ddl = 0
  /\ overview = << >>
  /\ refcounting \in BOOLEAN

Init == InitWith(Db0)

InitCat == \E d \in Catalogs : InitWith(d)

\* statement texts for execute_sql_query
Spaces(n) == [ i \in 1..n |-> " " ]

Select1 == << "S", "E", "L", "E", "C", "T", " ", "1" >>
select1 == << "s", "e", "l", "e", "c", "t", " ", "1" >>
SelectT == << "S", "e", "l", "e", "c", "t", " ", "*", " ", "f", "r", "o", "m", " ", "t" >>
SelectLines == << "\t", "s", "e", "l", "e", "c", "t", "\n", "1", "\n" >>
Selected == << "S", "E", "L", "E", "C", "T", "E", "D" >>
Selec == << "S", "E", "L", "E", "C" >>
LongSelect == << LongS, "e", "l", "e", "c", "t", " ", "1" >>
XSelect == << "x", " ", "S", "E", "L", "E", "C", "T", " ", "1" >>
DeleteT == << "D", "E", "L", "E", "T", "E", " ", "F", "R", "O", "M", " ", "t" >>
DropT == << "D", "R", "O", "P", " ", "T", "A", "B", "L", "E", " ", "t" >>
SelectThenDelete == select1 \o << ";", " " >> \o lower(DeleteT)
SelectThenDrop == Select1 \o << ";" >> \o DropT

Bodies ==
  { << >>, Select1, select1, SelectT, SelectLines, Selected, Selec, LongSelect,
    XSelect, DeleteT, DropT, SelectThenDelete, SelectThenDrop }

\* the bodies, and some of them between spaces
Queries ==
  Bodies \cup { Spaces(i) \o b \o Spaces(j) :
                  i \in 0..MaxPad, j \in 0..MaxPad, b \in { select1, DeleteT } }

Limits == (0 - 1)..MaxLimit

(***************************************************************************)
(* Specifications.                                                         *)
(***************************************************************************)
\* every operation, on the database Db0, with every fault; another session
\* may drop the table between the two statements of describe_table
Next ==
  \/ \E f \in Faults : list_schemas(f)
  \/ \E s \in { Public, App }, f \in Faults : list_tables(s, f)
  \/ \E a \in { << TName, Public >>, << UName, Public >>, << TName, App >> },
        f \in Faults : describe_table(a[1], a[2], f)
  \/ \E f \in Faults : DescribeConstraints(f)
  \/ /\ walk.pc = "constraints"
     /\ \E t \in db.tables : /\ t.name = call.args[1]
                              /\ t.schema = call.args[2]
                              /\ OtherDropTable(t)
  \/ \E f \in Faults : get_sample_data(TName, Public, 1, f)
  \/ \E q \in { select1, DeleteT }, f \in Faults : execute_sql_query(q, f)
  \/ \E f \in Faults : get_database_overview(f)
  \/ \E f \in Faults : sql_generation_prompt(f)
  \/ \E f \in Faults : WalkSchemas(f)
  \/ \E f \in Faults : WalkTables(f)
  \/ \E f \in Faults : WalkColumns(f)
  \/ Finalize

Spec == Init /\ [][Next]_vars

\* the operations that take a text or build one, on every text and limit
NextSql ==
  \/ \E q \in Queries, f \in { "none", "connect" } : execute_sql_query(q, f)
  \/ \E t \in { TName, UName, VName }, n \in Limits :
       get_sample_data(t, Public, n, "none")
  \/ \E f \in { "none" } : list_schemas(f)
  \/ Finalize

SpecSql == Init /\ [][NextSql]_vars

\* the catalog operations on every catalog of the family, among the changes
\* of other sessions between the two statements of describe_table
NextCat ==
  \/ \E s \in { Public, App }, f \in { "none", "execute" } : list_tables(s, f)
  \/ \E t \in { TName, RName }, s \in { Public, App }, f \in { "none", "execute" } :
       describe_table(t, s, f)
  \/ \E f \in { "none", "execute" } : DescribeConstraints(f)
  \/ walk.pc = "constraints" /\ \E t \in db.tables : OtherDropTable(t)
  \/ walk.pc = "constraints" /\ \E t \in db.tables : OtherAddColumn(t, ColB)
  \/ walk.pc = "constraints" /\ \E t \in db.tables : \E i \in DOMAIN t.cols :
       OtherDropColumn(t, i)
  \/ \E f \in { "none", "execute" } : get_database_overview(f)
  \/ Finalize

SpecCat == InitCat /\ [][NextCat]_vars

\* the walk among the changes of other sessions
NextWalk ==
  \/ \E f \in { "none", "execute" } : WalkSchemas(f)
  \/ \E f \in { "none", "execute" } : WalkTables(f)
  \/ \E f \in { "none", "execute" } : WalkColumns(f)
  \/ \E s \in { Public, App }, n \in { TName, RName } : OtherCreateTable(s, n)
  \/ \E t \in db.tables : OtherDropTable(t)
  \/ \E t \in db.tables : OtherAddColumn(t, ColB)
  \/ \E t \in db.tables : \E i \in DOMAIN t.cols : OtherDropColumn(t, i)
  \/ \E s \in { App } : OtherDropSchema(s)
  \/ Finalize

SpecWalk == Init /\ [][NextWalk]_vars

(***************************************************************************)
(* Properties.                                                             *)
(***************************************************************************)
NoFault == \A i \in DOMAIN call.faults : call.faults[i] = "none"
SomeRaised == \E i \in DOMAIN log : log[i].raised
Returned(op) == call.op = op /\ call.done

\* q is white space followed by the letters s, e, l, e, c, t in either case
\* (or the characters whose upper case they are), followed by anything
BeginsWithSelect(q) ==
  \E i \in 1..Len(q) :
    /\ \A j \in 1..(i - 1) : q[j] \in {" ", "\t", "\n"}
    /\ i + 5 <= Len(q)
    /\ \A k \in 1..6 : UpperChar(q[i + k - 1]) = KwSelect[k]

\* C1: execute_sql_query passes a text on to execute_query, unchanged,
\* exactly when the text, trimmed and upper-cased, starts with SELECT; any
\* other text gets the fixed message, and the call opens no connection and
\* issues no statement.
C1_SelectGate ==
  Returned("execute_sql_query") =>
    IF BeginsWithSelect(call.args[1])
    THEN /\ Len(log) = 1
         /\ log[1].stmt = PlainStmt(call.args[1])
         /\ ret.label # "Error: Only SELECT statements are allowed for security reasons."
    ELSE /\ ret.kind = "error"
         /\ ret.label = "Error: Only SELECT statements are allowed for security reasons."
         /\ conns = << >>
         /\ log = << >>

\* a text in lower case after a space was accepted and returned its row
C1_Witness ==
  /\ Returned("execute_sql_query")
  /\ call.args[1] = Spaces(1) \o select1
  /\ ret.kind = "json"
  /\ ret.doc = << [ value |-> 1 ] >>

\* C2: the operations write nothing: the database stays as it was before
\* the calls (no other session acts under SpecSql).
C2_NoWrites == db = Db0

\* C3: when a call has returned, every connection the service opened is
\* closed, and so is its cursor.
C3_AllReleased ==
  call.done =>
    /\ leaked = 0
    /\ \A i \in DOMAIN conns : conns[i].state = "closed" /\ conns[i].cursor = "closed"

\* the fixed label of each operation's error message
ErrorLabel(op) ==
  CASE op = "list_schemas" -> "Error listing schemas: "
    [] op = "list_tables" -> "Error listing tables in schema '"
    [] op = "describe_table" -> "Error describing table '"
    [] op = "get_sample_data" -> "Error getting sample data from '"
    [] op = "execute_sql_query" -> "Error executing query: "
    [] op = "get_database_overview" -> "Error getting database overview: "
    [] op = "get_database_structure" -> "Error getting database structure: "
    [] op = "sql_generation_prompt" -> "Error generating SQL prompt: "

\* C4: when the connection attempt or a statement of a call failed, the
\* operation returns the message that begins with its own error label.
C4_ErrorLabelled ==
  (call.done /\ call.op # "none" /\ SomeRaised) =>
    ret.kind = "error" /\ ret.label = ErrorLabel(call.op)

\* list_tables(S) has just returned on the database the last overview was
\* read from
ListedAfterOverview ==
  /\ Returned("list_tables")
  /\ ret.kind = "json"
  /\ overview # << >>
  /\ overview[1].db = db

\* C5 as stated: the table_count of schema S in the overview is the number
\* of rows list_tables(S) returns on the same catalog.
C5_CountIsListLength ==
  ListedAfterOverview =>
    \A i \in DOMAIN overview[1].rows :
      overview[1].rows[i].schema_name = call.args[1] =>
        overview[1].rows[i].table_count = Len(ret.doc)

\* C5, amended: the table_count of schema S in the overview is the number
\* of rows of type BASE TABLE that list_tables(S) returns on the same
\* catalog.
C5_CountIsBaseTables ==
  ListedAfterOverview =>
    \A i \in DOMAIN overview[1].rows :
      overview[1].rows[i].schema_name = call.args[1] =>
        overview[1].rows[i].table_count =
          Cardinality({ k \in DOMAIN ret.doc : ret.doc[k].table_type = "BASE TABLE" })

\* list_tables returned a view among the tables of a schema the overview
\* reported
C5_Witness ==
  /\ ListedAfterOverview
  /\ \E i \in DOMAIN overview[1].rows :
       overview[1].rows[i].schema_name = call.args[1]
  /\ \E k \in DOMAIN ret.doc : ret.doc[k].table_type = "VIEW"
  /\ \E k \in DOMAIN ret.doc : ret.doc[k].table_type = "BASE TABLE"

\* C6: for an existing table and a limit N, get_sample_data returns a list
\* of exactly min(N, row_count) rows, N being bound and only the names
\* being part of the text.
C6_SampleCount ==
  (Returned("get_sample_data") /\ NoFault) =>
    \A t \in db.tables :
      (t.name = call.args[1] /\ t.schema = call.args[2]) =>
        /\ ret.kind = "json"
        /\ Len(ret.doc) = Min(call.args[3], t.nrows)
        /\ log[1].stmt = TextStmt(SampleText(call.args[1], call.args[2]),
                                  << IntParam(call.args[3]) >>)

\* the rows of type ty in a bag of constraint rows
TypedRows(bag, ty) == { r \in DOMAIN bag : r.constraint_type = ty }

\* C7: for a table whose only constraint is a primary key, the constraints
\* of describe_table hold exactly one PRIMARY KEY row and no FOREIGN KEY
\* row, whatever else the catalog holds (the catalog being the same during
\* the whole call).
C7_OnePrimaryKeyRow ==
  (Returned("describe_table") /\ ret.kind = "json" /\ seen = { db }) =>
    LET own == { c \in db.cons : c.table = call.args[1] /\ c.schema = call.args[2] }
    IN  (Cardinality(own) = 1 /\ \A c \in own : c.type = "PRIMARY KEY") =>
          /\ \E r \in TypedRows(ret.doc[1].constraints, "PRIMARY KEY") :
               /\ ret.doc[1].constraints[r] = 1
               /\ TypedRows(ret.doc[1].constraints, "PRIMARY KEY") = { r }
          /\ TypedRows(ret.doc[1].constraints, "FOREIGN KEY") = { }

\* C8: with no failure, list_tables and describe_table return a document,
\* empty where nothing was found: list_tables on a schema without tables the
\* empty list, describe_table the structure of its four keys, holding the
\* rows its two statements returned, empty where a statement returned none
\* (as for a table the catalog has no columns or no constraints of); an
\* error message comes only with a failure.
C8_EmptyIsSuccess ==
  /\ Returned("list_tables") =>
       /\ NoFault => ret.kind = "json"
       /\ ret.kind = "error" => ~ NoFault
       /\ (NoFault /\ ~ \E t \in db.tables : t.schema = call.args[1]) =>
            ret.doc = << >>
  /\ Returned("describe_table") =>
       /\ ret.kind = "error" => ~ NoFault
       /\ NoFault =>
            /\ ret.kind = "json"
            /\ Len(ret.doc) = 1
            /\ DOMAIN ret.doc[1] = { "table_name", "schema_name", "columns", "constraints" }
            /\ ret.doc[1].table_name = call.args[1]
            /\ ret.doc[1].schema_name = call.args[2]
            /\ Len(log) = 2
            /\ ret.doc[1].columns = log[1].rows
            /\ ret.doc[1].constraints = log[2].rows[1].unordered
            /\ (~ \E d \in seen : \E t \in d.tables : /\ t.name = call.args[1]
                                                      /\ t.schema = call.args[2]
                                                      /\ t.cols # << >>)
                 => ret.doc[1].columns = << >>
            /\ (~ \E d \in seen : \E c \in d.cons : /\ c.table = call.args[1]
                                                    /\ c.schema = call.args[2])
                 => DOMAIN ret.doc[1].constraints = { }

\* describe_table of the table without columns and constraints returned
\* its structure with both sequences empty
C8_Witness ==
  /\ Returned("describe_table")
  /\ call.args = << UName, Public >>
  /\ NoFault
  /\ ret.kind = "json"
  /\ ret.doc[1].columns = << >>
  /\ DOMAIN ret.doc[1].constraints = { }

\* the walk has returned its document
WalkReturned == Returned("get_database_structure") /\ ret.kind = "json"

\* from entry i on, the log holds, for each schema left, its table statement
\* and then one column statement for each table that statement returned
RECURSIVE WalkOrder(_, _, _, _)
WalkOrder(i, schemas, tables, s) ==
  IF tables # << >>
    THEN /\ i <= Len(log)
         /\ log[i].stmt = Stmt("struct_columns", << TextParam(Head(tables).table_name), TextParam(s) >>)
         /\ WalkOrder(i + 1, schemas, Tail(tables), s)
  ELSE IF schemas # << >>
    THEN /\ i <= Len(log)
         /\ log[i].stmt = Stmt("struct_tables", << TextParam(Head(schemas).schema_name) >>)
         /\ WalkOrder(i + 1, Tail(schemas), log[i].rows, Head(schemas).schema_name)
  ELSE i = Len(log) + 1

TableEntries == { i \in DOMAIN log : log[i].stmt.sql = "struct_tables" }
ColumnEntries == { i \in DOMAIN log : log[i].stmt.sql = "struct_columns" }

RECURSIVE SumRows(_)
SumRows(E) ==
  IF E = {} THEN 0
  ELSE LET i == CHOOSE x \in E : TRUE IN Len(log[i].rows) + SumRows(E \ {i})

\* C9: a successful walk issues the schema statement, then per returned
\* schema its table statement followed by one column statement per
\* returned table: 1 + S + T statements, each on a connection of its own;
\* its result has one entry per returned schema and under it one entry per
\* returned table, with the table's type and the columns returned for it.
C9_WalkShape ==
  WalkReturned =>
    /\ log[1].stmt = Stmt("struct_schemas", << >>)
    /\ WalkOrder(2, log[1].rows, << >>, << >>)
    /\ Len(log) = 1 + Len(log[1].rows) + SumRows(TableEntries)
    /\ Len(conns) = Len(log)
    /\ \A i \in DOMAIN log : log[i].conn = i
    /\ Len(ret.doc) = Len(log[1].rows)
    /\ \A k \in DOMAIN ret.doc : ret.doc[k].key = log[1].rows[k].schema_name
    /\ \A i \in TableEntries :
         LET tables == Get(ret.doc, log[i].stmt.params[1].text)
         IN  /\ Len(tables) = Len(log[i].rows)
             /\ \A k \in DOMAIN tables :
                  /\ tables[k].key = log[i].rows[k].table_name
                  /\ tables[k].value.type = log[i].rows[k].table_type
    /\ \A i \in ColumnEntries :
         Get(Get(ret.doc, log[i].stmt.params[2].text),
             log[i].stmt.params[1].text).columns = log[i].rows

\* a walk over two schemas, one of them without tables, and three tables
C9_Witness ==
  /\ WalkReturned
  /\ Len(log[1].rows) = 2
  /\ Len(log) = 6
  /\ \E k \in DOMAIN ret.doc : ret.doc[k].value = << >>

\* the structure of database d: its schemas by name, the relations of each
\* by name, the columns of each by position
StructureOf(d) ==
  LET Entry(t) ==
        [ key |-> t.name,
          value |-> [ type |-> t.type,
                      columns |-> [ i \in DOMAIN t.cols |->
                                      [ column_name |-> t.cols[i].column_name,
                                        data_type |-> t.cols[i].data_type,
                                        is_nullable |-> t.cols[i].is_nullable,
                                        column_default |-> t.cols[i].column_default ] ] ] ]
      Schema(s) ==
        LET ts == OrderByText({ t \in d.tables : t.schema = s }, "name")
        IN  [ key |-> s, value |-> [ i \in DOMAIN ts |-> Entry(ts[i]) ] ]
      ss == SortedTexts(d.schemas \ SystemSchemas)
  IN  [ i \in DOMAIN ss |-> Schema(ss[i]) ]

\* C10 as stated: the result of a successful walk is the structure the
\* database had at one instant of the call, whatever other sessions do
\* between its statements.
C10_Snapshot ==
  WalkReturned => \E d \in seen : ret.doc = StructureOf(d)

\* C10, amended: the result of a successful walk is the structure of the
\* database when no other session changed the database between the
\* statements of the walk.
C10_SnapshotWhenQuiet ==
  WalkReturned => \A d \in seen : seen = { d } => ret.doc = StructureOf(d)

\* a walk that no change interrupted returned tables with their columns
C10_Witness ==
  /\ WalkReturned
  /\ Cardinality(seen) = 1
  /\ \E i \in DOMAIN ret.doc : \E k \in DOMAIN ret.doc[i].value :
       Len(ret.doc[i].value[k].value.columns) = 2

=============================================================================
